---- MODULE Spec2Model ----
(***************************************************************************)
(* Model of markdown/extensions/sections.py: the SectionsAssember that     *)
(* wraps headings and the content following them into nested <section>    *)
(* elements.  Strings are sequences of one-character strings, so that the  *)
(* class-attribute handling (split, join, strip, startswith, replace, int) *)
(* is computed as the code computes it.  The element tree is a function    *)
(* from node ids to child lists; node 0 is the document root, nodes 1..n   *)
(* are the input elements in document (pre-)order, and the section         *)
(* elements created by make_section get the ids n+1, n+2, ...              *)
(* elem.getchildren() is the copy returned by cElementTree, the            *)
(* implementation markdown.util.etree selects and the one the doctests of  *)
(* the module (lines 35-71) exhibit.                                       *)
(***************************************************************************)
EXTENDS Integers, Sequences, FiniteSets, TLC

VARIABLES
    md,               \* the Markdown instance: whether it has Meta, and Meta
    config,           \* the extension's configuration mapping
    doc0,             \* the input document, kept for reference
    tag,              \* node -> tag name
    attrib,           \* node -> attribute dictionary
    children,         \* node -> list of child nodes
    section_stack,    \* SectionsAssember.section_stack
    current_section,  \* SectionsAssember.current_section
    current_level,    \* SectionsAssember.current_level
    class_prefix,     \* SectionsAssember.class_prefix
    max_level,        \* SectionsAssember.max_level
    headers,          \* SectionsAssember.headers
    frames,           \* activation records of assemble, innermost last
    pc,               \* "new", "constructed", "walk", "done", "config_error", "raised"
    secinfo,          \* section -> the heading it was made for and what was open then
    nmoved,           \* node -> number of children add_element moved out of it
    last,             \* the operation that produced this state
    visits,           \* node -> number of times the loop of assemble took it as child
    pending,          \* documents the tree processor has still to run on
    results           \* outcome of each run the tree processor has finished

vars == <<md, config, doc0, tag, attrib, children, section_stack, current_section,
          current_level, class_prefix, max_level, headers, frames, pc, secinfo,
          nmoved, last, visits, pending, results>>

----------------------------------------------------------------------------
(* Bounds of the model. *)

MaxNodes == 3
MaxFlatNodes == 4
MaxAttrNodes == 2
MaxConfigNodes == 2
MaxRunNodes == 2

MaxFairNodes == 3

----------------------------------------------------------------------------
(* Python strings. *)

None == -1

Sp == " "

Digits == <<"0", "1", "2", "3", "4", "5", "6", "7", "8", "9">>

IsDigit(c) == \E i \in 1..10 : Digits[i] = c

DigitVal(c) == (CHOOSE i \in 1..10 : Digits[i] = c) - 1

(* The recursive operators below recurse through a function, so that each  *)
(* argument is evaluated once, like a Python argument.                     *)
Text == Seq(STRING)

StrOf[n \in Int] ==
    IF n < 0 THEN <<"-">> \o StrOf[0 - n]
    ELSE IF n < 10 THEN <<Digits[n + 1]>>
    ELSE StrOf[n \div 10] \o <<Digits[(n % 10) + 1]>>

Str(n) == StrOf[n]

LStripOf[s \in Text] == IF Len(s) > 0 /\ s[1] = Sp THEN LStripOf[Tail(s)] ELSE s

LStrip(s) == LStripOf[s]

RStripOf[s \in Text] ==
    IF Len(s) > 0 /\ s[Len(s)] = Sp THEN RStripOf[SubSeq(s, 1, Len(s) - 1)] ELSE s

RStrip(s) == RStripOf[s]

Strip(s) == RStrip(LStrip(s))

SplitOf[s \in Text] ==
    IF \A i \in 1..Len(s) : s[i] # Sp THEN <<s>>
    ELSE LET k == CHOOSE i \in 1..Len(s) :
                      s[i] = Sp /\ \A j \in 1..(i - 1) : s[j] # Sp
         IN  <<SubSeq(s, 1, k - 1)>> \o SplitOf[SubSeq(s, k + 1, Len(s))]

Split(s) == SplitOf[s]

JoinOf[ts \in Seq(Text)] ==
    IF Len(ts) = 0 THEN <<>>
    ELSE IF Len(ts) = 1 THEN ts[1]
    ELSE ts[1] \o <<Sp>> \o JoinOf[Tail(ts)]

Join(ts) == JoinOf[ts]

StartsWith(s, p) == Len(s) >= Len(p) /\ SubSeq(s, 1, Len(p)) = p

ReplaceOf[s \in Text, old \in Text] ==
    IF Len(s) < Len(old) THEN s
    ELSE IF StartsWith(s, old) THEN ReplaceOf[SubSeq(s, Len(old) + 1, Len(s)), old]
    ELSE <<s[1]>> \o ReplaceOf[Tail(s), old]

Replace(s, old) == ReplaceOf[s, old]

DigitsValOf[d \in Text] ==
    IF Len(d) = 0 THEN 0
    ELSE 10 * DigitsValOf[SubSeq(d, 1, Len(d) - 1)] + DigitVal(d[Len(d)])

DigitsVal(d) == DigitsValOf[d]

ParseIntOf[s \in Text] ==
    LET t == Strip(s)
        signed == Len(t) > 0 /\ t[1] \in {"-", "+"}
        d == IF signed THEN Tail(t) ELSE t
        ok == Len(d) > 0 /\ \A i \in 1..Len(d) : IsDigit(d[i])
    IN  [ok |-> ok,
         val |-> IF ~ok THEN 0
                 ELSE IF signed /\ t[1] = "-" THEN 0 - DigitsVal(d)
                 ELSE DigitsVal(d)]

ParseInt(s) == ParseIntOf[s]

RemoveFirst(seq, x) ==
    IF \E i \in 1..Len(seq) : seq[i] = x
    THEN LET k == CHOOSE i \in 1..Len(seq) :
                      seq[i] = x /\ \A j \in 1..(i - 1) : seq[j] # x
         IN  SubSeq(seq, 1, k - 1) \o SubSeq(seq, k + 1, Len(seq))
    ELSE seq

Contains(seq, x) == \E i \in 1..Len(seq) : seq[i] = x

removeNothing(childlist, element) == childlist

remove(childlist, element) == RemoveFirst(childlist, element)

----------------------------------------------------------------------------
(* Elements. *)

EmptyDict == [k \in {} |-> <<>>]

Get(d, key, default) == IF key \in DOMAIN d THEN d[key] ELSE default

HasKey(d, key) == key \in DOMAIN d

Truthy(s) == Len(s) > 0

SectionTag == <<"s", "e", "c", "t", "i", "o", "n">>

HTag(l) == <<"h">> \o Str(l)

PTag == <<"p">>

Has == <<"h", "a", "s">>

----------------------------------------------------------------------------
(* SectionsAssember. *)

GetConfigValueStatic(key) == config[key]

GetConfigValue(key) ==
    IF md.hasMeta /\ key \in DOMAIN md.Meta THEN md.Meta[key] ELSE config[key]

HeadersShort(ml) == { HTag(l) : l \in 1..(ml - 1) }

HeadersLong(ml) == { HTag(l) : l \in 1..(ml + 1) }

Headers(ml) == { HTag(l) : l \in 1..ml }

AllHeaders == { HTag(l) : l \in 1..6 }

get_level(header) == ParseInt(<<tag[header][Len(tag[header])]>>).val

SectionIdPrefixNone == <<>>

SectionIdPrefix == <<"s", "e", "c", "t", "i", "o", "n", "_">>

make_section(header) ==
    LET header_id == Get(attrib[header], "id", <<>>)
        idatt == IF Truthy(header_id)
                 THEN "id" :> (SectionIdPrefix \o header_id)
                 ELSE EmptyDict
        css_prefix == IF Truthy(class_prefix)
                      THEN class_prefix \o Str(get_level(header))
                      ELSE <<>>
        header_class == Get(attrib[header], "class", <<>>)
        css_class == IF Truthy(header_class)
                     THEN css_prefix \o <<Sp>> \o header_class
                     ELSE css_prefix
    IN  ("class" :> Strip(css_class)) @@ idatt

end_section(st) ==
    IF st.cur = None THEN st
    ELSE IF Len(st.stk) > 0
    THEN [cur |-> st.stk[Len(st.stk)].sec,
          lvl |-> st.stk[Len(st.stk)].level,
          stk |-> SubSeq(st.stk, 1, Len(st.stk) - 1)]
    ELSE [cur |-> None, lvl |-> 0, stk |-> <<>>]

MustCloseStrict(st, level) == st.cur # None /\ st.lvl > level

MustCloseNever(st, level) == FALSE

MustClose(st, level) == st.cur # None /\ st.lvl >= level

RECURSIVE CloseSections(_, _)
CloseSections(st, level) ==
    IF MustClose(st, level) THEN CloseSections(end_section(st), level) ELSE st

ResolveParentElem(cur, parent) == parent

ResolveParent(cur, parent) == IF cur # None THEN cur ELSE parent

CountLoopOf[css_classes \in Seq(Text), count \in Int] ==
    IF Len(css_classes) = 0 THEN [ok |-> TRUE, count |-> count]
    ELSE IF StartsWith(css_classes[1], Has)
    THEN LET r == ParseInt(Replace(css_classes[1], Has))
         IN  IF r.ok THEN CountLoopOf[Tail(css_classes), r.val]
             ELSE [ok |-> FALSE, count |-> count]
    ELSE CountLoopOf[Tail(css_classes), count]

CountLoop(css_classes, count) == CountLoopOf[css_classes, count]

BumpHasOf[cls \in Text] ==
    LET css_classes == Split(cls)
        r == CountLoop(css_classes, 0)
        has_class == Has \o Str(r.count)
        kept == RemoveFirst(css_classes, has_class)
    IN  [ok |-> r.ok,
         class |-> Join(Append(kept, Has \o Str(r.count + 1)))]

BumpHas(cls) == BumpHasOf[cls]

InitFieldsLevelOne(stk, cur, lvl) == [stk |-> <<>>, cur |-> None, lvl |-> 1]

InitFieldsKeepLevel(stk, cur, lvl) == [stk |-> <<>>, cur |-> None, lvl |-> lvl]

InitFields(stk, cur, lvl) == [stk |-> <<>>, cur |-> None, lvl |-> 0]

CoerceMaxLevelDefault(val) ==
    IF ParseInt(val).ok THEN ParseInt(val) ELSE [ok |-> TRUE, val |-> 3]

CoerceMaxLevel(val) == ParseInt(val)

----------------------------------------------------------------------------
(* The walk. *)

Top == frames[Len(frames)]

SetTop(f) == [frames EXCEPT ![Len(frames)] = f]

NewFrame(elem) ==
    [elem |-> elem, kids |-> children[elem], i |-> 1, section |-> None,
     phase |-> "test"]

OpenSections ==
    IF current_section = None THEN section_stack
    ELSE Append(section_stack, [sec |-> current_section, level |-> current_level])

WalkListLive(f) == children[f.elem]

WalkList(f) == f.kids

ScopeSectionCurrent(f) == current_section

ScopeSection(f) == f.section

AppendTargetOutermost(cur, stk) == IF Len(stk) > 0 THEN stk[1].sec ELSE cur

AppendTarget(cur, stk) == cur

AtChild(phase) ==
    /\ pc = "walk"
    /\ Len(frames) > 0
    /\ Top.phase = phase
    /\ Top.i <= Len(WalkList(Top))

Child == WalkList(Top)[Top.i]

Construct ==
    /\ pc = "new"
    /\ LET f == InitFields(section_stack, current_section, current_level)
       IN  /\ section_stack' = f.stk
           /\ current_section' = f.cur
           /\ current_level' = f.lvl
    /\ LET prefix == GetConfigValue("class_prefix")
           r == CoerceMaxLevel(GetConfigValue("max_level"))
       IN  IF r.ok
           THEN /\ class_prefix' = prefix
                /\ max_level' = r.val
                /\ headers' = Headers(r.val)
                /\ pc' = "constructed"
           ELSE /\ class_prefix' = prefix
                /\ pc' = "config_error"
                /\ UNCHANGED <<max_level, headers>>
    /\ last' = [op |-> "init", node |-> 0]
    /\ UNCHANGED <<pending, results, visits, md, config, doc0, tag, attrib, children,
                   frames, secinfo, nmoved>>

Assemble ==
    /\ pc = "constructed"
    /\ pc' = "walk"
    /\ frames' = <<NewFrame(0)>>
    /\ last' = [op |-> "assemble", node |-> 0]
    /\ UNCHANGED <<pending, results, visits, md, config, doc0, tag, attrib, children, section_stack,
                   current_section, current_level, class_prefix, max_level,
                   headers, secinfo, nmoved>>

BeginSection ==
    /\ AtChild("test")
    /\ tag[Child] \in headers
    /\ LET header == Child
           level == get_level(header)
           st == CloseSections([cur |-> current_section, lvl |-> current_level,
                                stk |-> section_stack], level)
           nested == st.cur # None
           stk2 == IF nested
                   THEN Append(st.stk, [sec |-> st.cur, level |-> st.lvl])
                   ELSE st.stk
           parent == ResolveParent(st.cur, Top.elem)
           bump == IF nested
                   THEN BumpHas(Get(attrib[st.cur], "class", Has \o <<"0">>))
                   ELSE [ok |-> TRUE, class |-> <<>>]
           new == Cardinality(DOMAIN children)
       IN  /\ section_stack' = stk2
           /\ last' = [op |-> "begin_section", node |-> header]
           /\ IF bump.ok
              THEN /\ attrib' = (new :> make_section(header)) @@
                                (IF nested
                                 THEN [attrib EXCEPT ![st.cur] =
                                           ("class" :> bump.class) @@ @]
                                 ELSE attrib)
                   /\ children' = (new :> <<>>) @@
                                  [children EXCEPT ![parent] = Append(@, new)]
                   /\ tag' = (new :> SectionTag) @@ tag
                   /\ secinfo' = (new :> [header |-> header, elem |-> Top.elem,
                                          openBefore |-> OpenSections]) @@ secinfo
                   /\ nmoved' = (new :> 0) @@ nmoved
                   /\ visits' = (new :> 0) @@ [visits EXCEPT ![header] = @ + 1]
                   /\ current_section' = new
                   /\ current_level' = level
                   /\ frames' = SetTop([Top EXCEPT !.section = new, !.phase = "add"])
                   /\ pc' = pc
              ELSE /\ current_section' = st.cur
                   /\ current_level' = st.lvl
                   /\ pc' = "raised"
                   /\ visits' = [visits EXCEPT ![header] = @ + 1]
                   /\ UNCHANGED <<attrib, children, tag, secinfo, nmoved, frames>>
    /\ UNCHANGED <<pending, results, md, config, doc0, class_prefix, max_level, headers>>

NotHeader ==
    /\ AtChild("test")
    /\ tag[Child] \notin headers
    /\ frames' = SetTop([Top EXCEPT !.phase = "add"])
    /\ last' = [op |-> "not_header", node |-> Child]
    /\ visits' = [visits EXCEPT ![Child] = @ + 1]
    /\ UNCHANGED <<pending, results, md, config, doc0, tag, attrib, children, section_stack,
                   current_section, current_level, class_prefix, max_level,
                   headers, pc, secinfo, nmoved>>

AddElement ==
    /\ AtChild("add")
    /\ ScopeSection(Top) # None
    /\ last' = [op |-> "add_element", node |-> Child]
    /\ IF Len(children[Top.elem]) > 0
       THEN IF ~Contains(children[Top.elem], Child)
            THEN /\ pc' = "raised"
                 /\ UNCHANGED <<children, nmoved, frames>>
            ELSE IF current_section = None
            THEN /\ pc' = "raised"
                 /\ children' = [children EXCEPT
                                     ![Top.elem] = remove(@, Child)]
                 /\ UNCHANGED <<nmoved, frames>>
            ELSE /\ children' = [children EXCEPT
                                     ![Top.elem] = remove(@, Child),
                                     ![AppendTarget(current_section, section_stack)] =
                                         Append(@, Child)]
                 /\ nmoved' = [nmoved EXCEPT ![Top.elem] = @ + 1]
                 /\ frames' = SetTop([Top EXCEPT !.phase = "recurse"])
                 /\ pc' = pc
       ELSE /\ frames' = SetTop([Top EXCEPT !.phase = "recurse"])
            /\ UNCHANGED <<children, nmoved, pc>>
    /\ UNCHANGED <<pending, results, visits, md, config, doc0, tag, attrib, section_stack, current_section,
                   current_level, class_prefix, max_level, headers, secinfo>>

KeepElement ==
    /\ AtChild("add")
    /\ ScopeSection(Top) = None
    /\ frames' = SetTop([Top EXCEPT !.phase = "recurse"])
    /\ last' = [op |-> "keep_element", node |-> Child]
    /\ UNCHANGED <<pending, results, visits, md, config, doc0, tag, attrib, children, section_stack,
                   current_section, current_level, class_prefix, max_level,
                   headers, pc, secinfo, nmoved>>

Recurse ==
    /\ AtChild("recurse")
    /\ Len(children[Child]) > 0
    /\ frames' = Append(SetTop([Top EXCEPT !.i = @ + 1, !.phase = "test"]),
                        NewFrame(Child))
    /\ last' = [op |-> "recurse", node |-> Child]
    /\ UNCHANGED <<pending, results, visits, md, config, doc0, tag, attrib, children, section_stack,
                   current_section, current_level, class_prefix, max_level,
                   headers, pc, secinfo, nmoved>>

NextChild ==
    /\ AtChild("recurse")
    /\ Len(children[Child]) = 0
    /\ frames' = SetTop([Top EXCEPT !.i = @ + 1, !.phase = "test"])
    /\ last' = [op |-> "next_child", node |-> Child]
    /\ UNCHANGED <<pending, results, visits, md, config, doc0, tag, attrib, children, section_stack,
                   current_section, current_level, class_prefix, max_level,
                   headers, pc, secinfo, nmoved>>

Return ==
    /\ pc = "walk"
    /\ Len(frames) > 0
    /\ Top.i > Len(WalkList(Top))
    /\ frames' = SubSeq(frames, 1, Len(frames) - 1)
    /\ pc' = IF Len(frames) = 1 THEN "done" ELSE "walk"
    /\ last' = [op |-> "return", node |-> Top.elem]
    /\ UNCHANGED <<pending, results, visits, md, config, doc0, tag, attrib, children, section_stack,
                   current_section, current_level, class_prefix, max_level,
                   headers, secinfo, nmoved>>

Next ==
    \/ Construct
    \/ Assemble
    \/ BeginSection
    \/ NotHeader
    \/ AddElement
    \/ KeepElement
    \/ Recurse
    \/ NextChild
    \/ Return

----------------------------------------------------------------------------
(* Input documents and configurations. *)

RootTag == <<"d", "i", "v">>

RECURSIVE AncOrSelf(_, _)
AncOrSelf(par, x) == IF x = 0 THEN {0} ELSE {x} \cup AncOrSelf(par, par[x])

IsPreorder(par, n) ==
    \A i \in 1..n : par[i] < i /\ (i > 1 => par[i] \in AncOrSelf(par, i - 1))

Shapes(n) == { par \in [1..n -> 0..(n - 1)] : IsPreorder(par, n) }

LastNestedShapes(n) == { par \in Shapes(n) : \A i \in 1..(n - 1) : par[i] = 0 }

ChildList(d, x) == SelectSeq([i \in 1..d.n |-> i], LAMBDA i : d.par[i] = x)

Level == <<"l", "e", "v", "e", "l">>

DefaultConfig == [max_level |-> <<"3">>, class_prefix |-> Level]

NoMeta == [hasMeta |-> FALSE, Meta |-> EmptyDict]

TreeTags == {PTag, HTag(1), HTag(2), HTag(3), HTag(4)}

FlatShapes(n) == { [i \in 1..n |-> 0] }

FirstNestedShapes(n) == { [i \in 1..n |-> IF i = 2 THEN 1 ELSE 0] }

TailNestedShapes(n) == { [i \in 1..n |-> IF i > n - 2 THEN n - 2 ELSE 0] }

WideShapes(n) == FlatShapes(n) \cup FirstNestedShapes(n) \cup TailNestedShapes(n)

TreeDocs ==
    UNION { { [n |-> n, par |-> par, tag |-> t,
               attrib |-> [i \in 1..n |-> EmptyDict]] :
              par \in (IF n <= MaxNodes THEN Shapes(n) ELSE WideShapes(n)),
              t \in [1..n -> TreeTags] } :
            n \in 1..(IF MaxNodes > MaxFlatNodes THEN MaxNodes ELSE MaxFlatNodes) }

FairTags == {PTag, HTag(1), HTag(2)}

TreeEnvs == { [md |-> NoMeta, config |-> DefaultConfig] }

LoadTag(d) == [x \in 0..d.n |-> IF x = 0 THEN RootTag ELSE d.tag[x]]

LoadAttrib(d) == [x \in 0..d.n |-> IF x = 0 THEN EmptyDict ELSE d.attrib[x]]

LoadChildren(d) == [x \in 0..d.n |-> ChildList(d, x)]

SetupQueue(d, e, queue) ==
    /\ md = e.md
    /\ config = e.config
    /\ doc0 = d
    /\ pending = queue
    /\ results = <<>>
    /\ tag = LoadTag(d)
    /\ attrib = LoadAttrib(d)
    /\ children = LoadChildren(d)
    /\ section_stack = <<>>
    /\ current_section = None
    /\ current_level = 0
    /\ class_prefix = <<>>
    /\ max_level = 0
    /\ headers = {}
    /\ frames = <<>>
    /\ pc = "new"
    /\ secinfo = EmptyDict
    /\ nmoved = [x \in 0..d.n |-> 0]
    /\ visits = [x \in 0..d.n |-> 0]
    /\ last = [op |-> "none", node |-> 0]

Setup(d, e) == SetupQueue(d, e, <<>>)

Init == \E d \in TreeDocs : \E e \in TreeEnvs : Setup(d, e)

Spec == Init /\ [][Next]_vars

AttrTags == {PTag, HTag(1), HTag(3)}

AttrChoices ==
    { EmptyDict,
      ("id" :> <<"a">>) @@ ("class" :> <<"t">>),
      "class" :> <<"h", "a", "s", "5">>,
      "class" :> <<"h", "a", "s", "t", "y">>,
      ("id" :> <<>>) @@ ("class" :> <<" ", "t">>) }

AttrDocs ==
    UNION { UNION { { [n |-> n, par |-> par, tag |-> t, attrib |-> a] :
                      a \in { f \in [1..n -> AttrChoices] :
                                \A i \in 1..n : t[i] = PTag => f[i] = EmptyDict } } :
                    par \in LastNestedShapes(n), t \in [1..n -> AttrTags] } :
            n \in 1..MaxAttrNodes }

AttrEnvs ==
    { [md |-> NoMeta, config |-> [max_level |-> <<"3">>, class_prefix |-> cp]] :
      cp \in {Level, <<>>, Has} }

InitAttr == \E d \in AttrDocs : \E e \in AttrEnvs : Setup(d, e)

SpecAttr == InitAttr /\ [][Next]_vars

ConfigTags == {PTag, HTag(1), HTag(2), HTag(3)}

ConfigDocs ==
    UNION { { [n |-> n, par |-> par, tag |-> t,
               attrib |-> [i \in 1..n |-> EmptyDict]] :
              par \in Shapes(n), t \in [1..n -> ConfigTags] } :
            n \in 1..MaxConfigNodes }

ConfigMetas ==
    { NoMeta,
      [hasMeta |-> TRUE, Meta |-> EmptyDict],
      [hasMeta |-> TRUE, Meta |-> "max_level" :> <<"1">>],
      [hasMeta |-> TRUE, Meta |-> "max_level" :> <<"x">>],
      [hasMeta |-> TRUE, Meta |-> "class_prefix" :> <<"s">>] }

ConfigEnvs ==
    { [md |-> m, config |-> [max_level |-> ml, class_prefix |-> Level]] :
      m \in ConfigMetas,
      ml \in { <<"3">>, <<"2">>, <<"0">>, <<"-", "1">>, <<"x">>, <<>> } }

InitConfig == \E d \in ConfigDocs : \E e \in ConfigEnvs : Setup(d, e)

SpecConfig == InitConfig /\ [][Next]_vars

----------------------------------------------------------------------------
(* The tree processor run on several documents in turn. *)

Outcome ==
    [children |-> children, attrib |-> attrib, tag |-> tag, pc |-> pc,
     open |-> OpenSections]

RunAgain ==
    /\ pc \in {"done", "raised", "config_error"}
    /\ Len(pending) > 0
    /\ results' = Append(results, Outcome)
    /\ pending' = Tail(pending)
    /\ doc0' = Head(pending)
    /\ tag' = LoadTag(Head(pending))
    /\ attrib' = LoadAttrib(Head(pending))
    /\ children' = LoadChildren(Head(pending))
    /\ frames' = <<>>
    /\ pc' = "new"
    /\ secinfo' = EmptyDict
    /\ nmoved' = [x \in 0..Head(pending).n |-> 0]
    /\ visits' = [x \in 0..Head(pending).n |-> 0]
    /\ last' = [op |-> "run", node |-> 0]
    /\ UNCHANGED <<md, config, section_stack, current_section, current_level,
                   class_prefix, max_level, headers>>

NextRuns ==
    \/ Next
    \/ RunAgain

Plain(n, tags) ==
    [n |-> n, par |-> [i \in 1..n |-> 0], tag |-> tags,
     attrib |-> [i \in 1..n |-> EmptyDict]]

PrevDocs ==
    { Plain(1, <<PTag>>),
      Plain(1, <<HTag(1)>>),
      Plain(3, <<HTag(1), HTag(2), HTag(3)>>),
      [Plain(2, <<HTag(1), HTag(2)>>) EXCEPT
           !.attrib = <<"class" :> <<"h", "a", "s", "t", "y">>, EmptyDict>>] }

RunDocs ==
    UNION { { [n |-> n, par |-> par, tag |-> t,
               attrib |-> [i \in 1..n |-> EmptyDict]] :
              par \in Shapes(n), t \in [1..n -> TreeTags] } :
            n \in 1..MaxRunNodes }

InitRuns ==
    \E d \in RunDocs : \E a \in PrevDocs : \E e \in TreeEnvs :
        SetupQueue(d, e, <<a, d>>)

SpecRuns == InitRuns /\ [][NextRuns]_vars

----------------------------------------------------------------------------
(* Reading the tree. *)

Nodes == DOMAIN children

Orig == 1..doc0.n

Sections == { x \in Nodes : tag[x] = SectionTag }

HasParent(x) == \E p \in Nodes : Contains(children[p], x)

ParentOf(x) == CHOOSE p \in Nodes : Contains(children[p], x)

RECURSIVE Depth(_)
Depth(x) ==
    IF ~HasParent(x) THEN 0
    ELSE (IF ParentOf(x) \in Sections THEN 1 ELSE 0) + Depth(ParentOf(x))

RECURSIVE Inside(_, _)
Inside(x, s) == HasParent(x) /\ (ParentOf(x) = s \/ Inside(ParentOf(x), s))

RECURSIVE Count(_, _)
Count(seq, x) ==
    IF Len(seq) = 0 THEN 0
    ELSE (IF seq[1] = x THEN 1 ELSE 0) + Count(Tail(seq), x)

RECURSIVE SumOver(_, _)
SumOver(S, x) ==
    IF S = {} THEN 0
    ELSE LET p == CHOOSE q \in S : TRUE
         IN  Count(children[p], x) + SumOver(S \ {p}, x)

Occurrences(x) == SumOver(Nodes, x)

Recognized(x) == tag[x] \in AllHeaders /\ get_level(x) <= max_level

OverLevel(x) == tag[x] \in AllHeaders /\ get_level(x) > max_level

SectionsFor(h) == { s \in DOMAIN secinfo : secinfo[s].header = h }

Shallower(open, L) == SelectSeq(open, LAMBDA e : e.level < L)

AfterBegin == last.op = "begin_section" /\ pc = "walk"

----------------------------------------------------------------------------
(* Properties. *)

(* C1: immediately after begin_section returns for a heading of level L,   *)
(* every section that was open before the call (current or on             *)
(* section_stack) with level >= L is no longer open, the sections that     *)
(* were open with level < L are still open in the same order, and the      *)
(* current section is the newly created one with current_level = L.        *)
C1_BeginSectionCloses ==
    [][ (last'.op = "begin_section" /\ pc' = "walk") =>
          LET L == get_level(last'.node)
              before == OpenSections
          IN  /\ section_stack' = Shallower(before, L)
              /\ \A i \in 1..Len(before) :
                     before[i].level >= L =>
                         /\ before[i].sec # current_section'
                         /\ \A j \in 1..Len(section_stack') :
                                section_stack'[j].sec # before[i].sec
              /\ current_section' \notin DOMAIN children
              /\ current_section' \in DOMAIN children'
              /\ tag'[current_section'] = SectionTag
              /\ current_level' = L ]_vars

(* A begin_section that closed at least one section and kept at least two. *)
C1_Witness ==
    /\ AfterBegin
    /\ LET before == secinfo[current_section].openBefore
       IN  /\ \E i \in 1..Len(before) : before[i].level >= current_level
           /\ Len(Shallower(before, current_level)) >= 2
           /\ Len(section_stack) >= 2

AllHeadingsRecognized == \A x \in Orig : tag[x] \in AllHeaders => Recognized(x)

AllHeadingsAtRoot == \A x \in Orig : tag[x] \in AllHeaders => doc0.par[x] = 0

WrappedOnce(h) ==
    /\ Cardinality(SectionsFor(h)) = 1
    /\ HasParent(h)
    /\ ParentOf(h) \in SectionsFor(h)

OpenShallowerAt(s) ==
    Len(Shallower(secinfo[s].openBefore, get_level(secinfo[s].header)))

(* C2 as stated: when all headings have levels within [1, max_level],      *)
(* wherever they sit in the input tree, after assemble every heading is    *)
(* wrapped by exactly one section, whose number of section ancestors       *)
(* equals the number of sections that were open with a strictly shallower  *)
(* level when the heading was processed.                                   *)
C2_DepthEqualsOpenShallower ==
    (pc = "done" /\ AllHeadingsRecognized) =>
        \A h \in Orig :
            tag[h] \in AllHeaders =>
                /\ WrappedOnce(h)
                /\ \A s \in SectionsFor(h) : Depth(s) = OpenShallowerAt(s)

(* C2 amended: every heading is wrapped by exactly one section whose       *)
(* number of section ancestors is at least the number of sections open     *)
(* with a strictly shallower level when the heading was processed, and     *)
(* equals it when every heading is a direct child of the root.             *)
C2_DepthAtLeastOpenShallower ==
    (pc = "done" /\ AllHeadingsRecognized) =>
        \A h \in Orig :
            tag[h] \in AllHeaders =>
                /\ WrappedOnce(h)
                /\ \A s \in SectionsFor(h) :
                       /\ Depth(s) >= OpenShallowerAt(s)
                       /\ AllHeadingsAtRoot => Depth(s) = OpenShallowerAt(s)

(* A finished flat document with a section two sections deep. *)
C2_Witness ==
    /\ pc = "done"
    /\ AllHeadingsRecognized
    /\ AllHeadingsAtRoot
    /\ \E s \in Sections : Depth(s) = 2 /\ OpenShallowerAt(s) = 2

(* C3: after assemble, the number of section elements equals the number    *)
(* of headings with level <= max_level anywhere in the tree, and each such *)
(* heading's parent is the section created for it, with the heading as     *)
(* that section's first child.                                             *)
C3_OneSectionPerHeading ==
    pc = "done" =>
        /\ Cardinality(Sections) = Cardinality({ x \in Orig : Recognized(x) })
        /\ \A h \in Orig :
               Recognized(h) =>
                   /\ HasParent(h)
                   /\ ParentOf(h) \in SectionsFor(h)
                   /\ children[ParentOf(h)][1] = h

(* A finished document with a recognized heading inside a container, a     *)
(* heading deeper than max_level, and at least two sections.               *)
C3_Witness ==
    /\ pc = "done"
    /\ Cardinality(Sections) >= 2
    /\ \E h \in Orig : Recognized(h) /\ doc0.par[h] # 0
    /\ \E x \in Orig : OverLevel(x)

OrigChildren(x) == { c \in Orig : doc0.par[c] = x }

HeadingBetween(h, c) ==
    \E g \in Orig : h < g /\ g < c /\ Recognized(g) /\ get_level(g) <= get_level(h)

InOriginalOrder(seq) ==
    \A i, j \in 1..Len(seq) :
        (i < j /\ seq[i] \in Orig /\ seq[j] \in Orig) => seq[i] < seq[j]

(* C4: a non-heading sibling that follows a heading h, with no heading of  *)
(* level <= level(h) between them, ends up inside h's section; the nodes   *)
(* moved into a section keep their original order; for every node, the     *)
(* number of children moved out of it plus the number of its original      *)
(* children still under it is its original child count; and every original *)
(* node occurs exactly once in the final tree.                             *)
C4_ContentReparented ==
    pc = "done" =>
        /\ \A h, c \in Orig :
               ( /\ Recognized(h)
                 /\ ~Recognized(c)
                 /\ doc0.par[h] = doc0.par[c]
                 /\ h < c
                 /\ ~HeadingBetween(h, c) ) =>
                   \A s \in SectionsFor(h) : Inside(c, s)
        /\ \A s \in Sections : InOriginalOrder(children[s])
        /\ \A x \in Orig \cup {0} :
               nmoved[x] + Cardinality({ c \in OrigChildren(x) :
                                           Contains(children[x], c) })
                   = Cardinality(OrigChildren(x))
        /\ \A x \in Orig : Occurrences(x) = 1 /\ Inside(x, 0)

(* A finished document where content followed a heading, some content was  *)
(* moved and some was left in place.                                       *)
C4_Witness ==
    /\ pc = "done"
    /\ \E h, c \in Orig :
           /\ Recognized(h) /\ tag[c] = PTag /\ h < c
           /\ doc0.par[h] = doc0.par[c]
           /\ ~HeadingBetween(h, c)
           /\ \E s \in SectionsFor(h) : ParentOf(c) = s /\ Len(children[s]) >= 3
    /\ \E x \in Orig : HasParent(x) /\ ParentOf(x) = doc0.par[x]

IsHasN(tok) ==
    /\ StartsWith(tok, Has)
    /\ Len(tok) > Len(Has)
    /\ \A i \in (Len(Has) + 1)..Len(tok) : IsDigit(tok[i])

HasN(tok) == DigitsVal(SubSeq(tok, Len(Has) + 1, Len(tok)))

ChildSections(s) == { c \in Sections : Contains(children[s], c) }

(* C5: after full assembly, for every heading class and class_prefix, a    *)
(* section carries at most one hasN class token, a section with child      *)
(* sections carries one, and the N of a hasN token equals the number of    *)
(* direct child section elements of that section.                          *)
C5_HasCountMatchesChildSections ==
    pc = "done" =>
        \A s \in Sections :
            LET toks == Split(Get(attrib[s], "class", <<>>))
                hs == { i \in 1..Len(toks) : IsHasN(toks[i]) }
            IN  /\ Cardinality(hs) <= 1
                /\ \A i \in hs : HasN(toks[i]) = Cardinality(ChildSections(s))
                /\ Cardinality(ChildSections(s)) > 0 => hs # {}

(* C6: begin_section appends the new section as the last child of the      *)
(* innermost section still open after closing (the one of greatest level   *)
(* < L) or, when none remains open, of the node whose children are being   *)
(* walked, and changes no other child list; when the current section has   *)
(* the level of the new heading and a shallower section is open, the old   *)
(* and the new section are both direct children of that shallower section. *)
C6_SectionAttachedToResolvedParent ==
    [][ (last'.op = "begin_section" /\ pc' = "walk") =>
          LET L == get_level(last'.node)
              keep == Shallower(OpenSections, L)
              new == current_section'
              parent == IF Len(keep) = 0 THEN Top.elem ELSE keep[Len(keep)].sec
          IN  /\ children'[parent] = Append(children[parent], new)
              /\ \A p \in DOMAIN children :
                     p # parent => children'[p] = children[p]
              /\ \A i \in 1..Len(keep) : keep[i].level <= keep[Len(keep)].level
              /\ (current_section # None /\ current_level = L
                    /\ Len(section_stack) > 0) =>
                     /\ parent = section_stack[Len(section_stack)].sec
                     /\ Contains(children'[parent], current_section)
                     /\ Contains(children'[parent], new) ]_vars

(* Two sibling sections of equal level under a still open shallower one.   *)
C6_Witness ==
    /\ AfterBegin
    /\ LET before == secinfo[current_section].openBefore
       IN  /\ Len(before) >= 2
           /\ before[Len(before)].level = current_level
           /\ ParentOf(current_section) = before[Len(before) - 1].sec
           /\ ParentOf(before[Len(before)].sec) = before[Len(before) - 1].sec

(* C7: a heading with level > max_level never triggers begin_section: the  *)
(* step that tests it leaves section_stack, current_section, current_level *)
(* and the tree unchanged; it is then handled as ordinary content (left in *)
(* place when no section is active in its scope, appended to the current   *)
(* section otherwise), and no section is ever made for it.                 *)
C7_OverLevelHeadingsAreContent ==
    /\ [][ /\ (AtChild("test") /\ OverLevel(Child)) =>
                 /\ last'.op = "not_header"
                 /\ UNCHANGED <<section_stack, current_section, current_level,
                                children, tag, attrib, secinfo>>
           /\ (AtChild("add") /\ OverLevel(Child)) =>
                 /\ UNCHANGED <<section_stack, current_section, current_level,
                                tag, attrib, secinfo>>
                 /\ Top.section = None => children' = children
                 /\ Top.section # None =>
                        children'[current_section] =
                            Append(children[current_section], Child) ]_vars
    /\ [](pc \in {"walk", "done"} =>
              \A x \in Orig :
                  OverLevel(x) =>
                      /\ SectionsFor(x) = {}
                      /\ pc = "done" =>
                             /\ HasParent(x)
                             /\ \/ ParentOf(x) = doc0.par[x]
                                \/ ParentOf(x) \in Sections)

(* A finished document with one over-level heading left in place and one   *)
(* moved into a section as content.                                        *)
C7_Witness ==
    /\ pc = "done"
    /\ \E x, y \in Orig :
           /\ OverLevel(x) /\ OverLevel(y)
           /\ ParentOf(x) = doc0.par[x]
           /\ ParentOf(y) \in Sections

ClaimedIdPrefix == <<"s", "e", "c", "t", "i", "o", "n", "_">>

SectionAttsAre(s, h, levelclass) ==
    LET a0 == doc0.attrib[h]
        hid == Get(a0, "id", <<>>)
        own == IF HasKey(a0, "class") THEN <<Sp>> \o a0["class"] ELSE <<>>
    IN  /\ Truthy(hid) => HasKey(attrib[s], "id")
                          /\ attrib[s]["id"] = ClaimedIdPrefix \o hid
        /\ ~Truthy(hid) => ~HasKey(attrib[s], "id")
        /\ HasKey(attrib[s], "class")
        /\ attrib[s]["class"] = Strip(levelclass \o own)

HeadingAttsKept == \A x \in DOMAIN attrib : x \in Orig => attrib[x] = doc0.attrib[x]

(* C8 as stated: the new section has id 'section_' + the heading's id when *)
(* that id is non-empty and no id otherwise, and class                     *)
(* '{class_prefix}{level}' followed by a space and the heading's class     *)
(* when present, trimmed; the heading's attributes never change.           *)
C8_SectionAttributes ==
    /\ AfterBegin =>
           SectionAttsAre(current_section, last.node,
                          GetConfigValue("class_prefix") \o Str(get_level(last.node)))
    /\ HeadingAttsKept

(* C8 amended: as stated when class_prefix is non-empty; with an empty     *)
(* class_prefix the level class is left out and the section's class is the *)
(* heading's own class, trimmed (the empty string when it has none).       *)
C8_SectionAttributesPrefixed ==
    /\ AfterBegin =>
           SectionAttsAre(current_section, last.node,
                          IF Truthy(GetConfigValue("class_prefix"))
                          THEN GetConfigValue("class_prefix")
                                   \o Str(get_level(last.node))
                          ELSE <<>>)
    /\ HeadingAttsKept

(* A section just made, with an empty class_prefix, for a heading that has *)
(* an id and a class.                                                      *)
C8_Witness ==
    /\ AfterBegin
    /\ ~Truthy(class_prefix)
    /\ Truthy(Get(attrib[last.node], "id", <<>>))
    /\ HasKey(attrib[last.node], "class")
    /\ HasKey(attrib[current_section], "id")

(* C9: a heading of level L <= max_level met when no section is open opens *)
(* its section directly under the node being walked, a heading that skips  *)
(* levels below an open section opens its section directly inside that     *)
(* section, and in both cases begin_section does not raise.                *)
C9_LevelGapsTolerated ==
    last.op = "begin_section" =>
        LET L == get_level(last.node)
        IN  IF pc = "raised"
            THEN ~(current_section = None
                     \/ (current_section # None /\ L > current_level + 1))
            ELSE LET s == current_section
                     keep == Shallower(secinfo[s].openBefore, L)
                 IN  /\ Len(keep) = 0 => ParentOf(s) = secinfo[s].elem
                     /\ (Len(keep) > 0 /\ L > keep[Len(keep)].level + 1) =>
                            ParentOf(s) = keep[Len(keep)].sec

TreeUntouched ==
    /\ children = [x \in 0..doc0.n |-> ChildList(doc0, x)]
    /\ tag = [x \in 0..doc0.n |-> IF x = 0 THEN RootTag ELSE doc0.tag[x]]
    /\ attrib = [x \in 0..doc0.n |-> IF x = 0 THEN EmptyDict ELSE doc0.attrib[x]]
    /\ frames = <<>>
    /\ section_stack = <<>>
    /\ current_section = None

(* C10 as stated: a max_level that does not parse as a positive integer    *)
(* makes construction fail, before the traversal and with the tree         *)
(* unchanged.                                                              *)
C10_NotPositiveIntegerFails ==
    LET r == ParseInt(GetConfigValue("max_level"))
    IN  (pc # "new" /\ ~(r.ok /\ r.val > 0)) =>
            (pc = "config_error" /\ TreeUntouched)

(* C10 amended: a max_level that does not parse as an integer makes        *)
(* construction fail, before the traversal and with the tree unchanged; a  *)
(* max_level that parses as zero or a negative integer is accepted and     *)
(* makes no heading open a section.                                        *)
C10_NotIntegerFails ==
    LET r == ParseInt(GetConfigValue("max_level"))
    IN  /\ (pc # "new" /\ ~r.ok) => (pc = "config_error" /\ TreeUntouched)
        /\ (pc # "new" /\ r.ok /\ r.val <= 0) =>
               (pc \in {"constructed", "walk", "done"} /\ Sections = {})
        /\ pc = "config_error" => ~r.ok

(* Construction failed on a document that contains a heading.              *)
C10_Witness ==
    /\ pc = "config_error"
    /\ \E x \in Orig : tag[x] \in AllHeaders
    /\ last.op = "init"

Finished == pc \in {"done", "raised", "config_error"}

(* C11: every run starts with an empty section_stack, no current section   *)
(* and current_level 0, and the outcome of running on a document after     *)
(* the same tree processor has handled other documents (one of them left   *)
(* with open sections, one that raised) is the outcome of running on that  *)
(* document first.                                                         *)
C11_RunsAreIndependent ==
    /\ pc \in {"constructed", "config_error"} =>
           /\ section_stack = <<>>
           /\ current_section = None
           /\ current_level = 0
    /\ (Finished /\ Len(results) = 2) =>
           Outcome = results[1]

(* The third run has finished with sections, after a run that left         *)
(* sections open.                                                          *)
C11_Witness ==
    /\ pc = "done"
    /\ Len(results) = 2
    /\ Len(results[2].open) >= 2
    /\ Len(results[1].open) >= 1
    /\ Sections # {}

Chosen(key) ==
    IF md.hasMeta
    THEN IF key \in DOMAIN md.Meta THEN md.Meta[key] ELSE config[key]
    ELSE config[key]

(* C12: each option is resolved at construction from the document metadata *)
(* when the key is present there, and from the configured value only when  *)
(* the host has no metadata or the key is absent from it: class_prefix and *)
(* max_level hold the chosen values, sections get the chosen prefix, and   *)
(* the headings that open sections are those up to the chosen max_level.   *)
C12_MetadataFirst ==
    /\ pc \in {"constructed", "walk", "done", "raised"} =>
           /\ class_prefix = Chosen("class_prefix")
           /\ ParseInt(Chosen("max_level")).ok
           /\ max_level = ParseInt(Chosen("max_level")).val
    /\ pc = "config_error" => ~ParseInt(Chosen("max_level")).ok
    /\ AfterBegin =>
           attrib[current_section]["class"] =
               Chosen("class_prefix") \o Str(get_level(last.node))
    /\ pc = "done" =>
           Cardinality(Sections) =
               Cardinality({ x \in Orig :
                               /\ tag[x] \in AllHeaders
                               /\ get_level(x) <= ParseInt(Chosen("max_level")).val })

(* A finished run where the metadata's max_level 1 overrode a configured 3 *)
(* and kept an h2 from opening a section.                                  *)
C12_Witness ==
    /\ pc = "done"
    /\ md.hasMeta
    /\ "max_level" \in DOMAIN md.Meta
    /\ md.Meta["max_level"] = <<"1">>
    /\ config["max_level"] = <<"3">>
    /\ \E x, y \in Orig : tag[x] = HTag(1) /\ tag[y] = HTag(2)
    /\ Cardinality(Sections) = 1

----------------------------------------------------------------------------
(* C13: between operations the levels recorded on section_stack strictly   *)
(* increase from bottom to top and current_level is strictly greater than  *)
(* the level of the top entry (a begin_section that raised stopped half    *)
(* way and is not between operations).                                     *)
C13_StackStrictlyIncreasing ==
    pc # "raised" =>
        /\ \A i, j \in 1..Len(section_stack) :
               i < j => section_stack[i].level < section_stack[j].level
        /\ Len(section_stack) > 0 =>
               section_stack[Len(section_stack)].level < current_level

(* Two sections wait on the stack below a third, after a heading closed    *)
(* deeper ones.                                                            *)
C13_Witness ==
    /\ pc = "walk"
    /\ Len(section_stack) = 2
    /\ current_section # None
    /\ Cardinality(Sections) > 3

(* C14: a child is re-parented exactly when a recognized heading has been  *)
(* seen among the children of its own parent at or before it; children of  *)
(* a nested container before that container's first recognized heading     *)
(* stay in the container, whatever section is open outside.                *)
SeenInScope(x) ==
    \E h \in Orig : doc0.par[h] = doc0.par[x] /\ h <= x /\ Recognized(h)

C14_ReparentedIffHeadingInScope ==
    /\ (pc = "walk" /\ last.op = "keep_element") =>
           /\ ~SeenInScope(last.node)
           /\ ParentOf(last.node) = doc0.par[last.node]
    /\ (pc = "walk" /\ last.op = "add_element") =>
           /\ SeenInScope(last.node)
           /\ ParentOf(last.node) \in Sections
    /\ pc = "done" =>
           \A x \in Orig :
               /\ SeenInScope(x) <=> ParentOf(x) # doc0.par[x]
               /\ SeenInScope(x) => ParentOf(x) \in Sections

(* A finished run where a container's first child stayed in it although a  *)
(* section opened outside was open, and the container's heading and what   *)
(* followed it were moved out.                                             *)
C14_Witness ==
    /\ pc = "done"
    /\ \E g, x, h \in Orig :
           /\ g < x /\ x < h
           /\ Recognized(g) /\ doc0.par[g] = 0
           /\ doc0.par[x] # 0 /\ doc0.par[h] = doc0.par[x]
           /\ ~Recognized(x) /\ Recognized(h)
           /\ ParentOf(x) = doc0.par[x]
           /\ ParentOf(h) \in Sections

(* C15: add_element appends the node as the last child of the section     *)
(* made for the latest recognized heading in traversal order, and the      *)
(* child list of a section waiting on section_stack only ever grows by a   *)
(* section that begin_section has just created.                            *)
Newest == CHOOSE s \in Sections : \A t \in Sections : t <= s

LatestHeading(x) ==
    CHOOSE h \in Orig :
        /\ h <= x /\ Recognized(h)
        /\ \A g \in Orig : (g <= x /\ Recognized(g)) => g <= h

C15_AppendedToLatestSection ==
    /\ [][(last'.op = "add_element" /\ pc' = "walk") =>
              /\ Sections # {}
              /\ secinfo[Newest].header = LatestHeading(last'.node)
              /\ children'[Newest] = Append(children[Newest], last'.node)]_vars
    /\ [][\A i \in 1..Len(section_stack) :
              LET s == section_stack[i].sec
              IN  children'[s] # children[s] =>
                      /\ last'.op = "begin_section"
                      /\ \E new \in (DOMAIN children') \ (DOMAIN children) :
                             /\ tag'[new] = SectionTag
                             /\ children'[s] = Append(children[s], new)]_vars

(* A paragraph has just been appended to the current section while its     *)
(* ancestor waits on the stack, after that ancestor received a second      *)
(* child section.                                                          *)
C15_Witness ==
    /\ pc = "walk"
    /\ last.op = "add_element"
    /\ tag[last.node] = PTag
    /\ Len(section_stack) >= 1
    /\ ParentOf(last.node) = current_section
    /\ Cardinality(ChildSections(section_stack[1].sec)) >= 2

(* The tree processor runs assemble to its end without interruption: a     *)
(* step that can be taken is taken.                                        *)
FairDocs ==
    UNION { { [n |-> n, par |-> par, tag |-> t,
               attrib |-> [i \in 1..n |-> EmptyDict]] :
              par \in Shapes(n), t \in [1..n -> FairTags] } :
            n \in 1..MaxFairNodes }

InitFair == \E d \in FairDocs : \E e \in TreeEnvs : Setup(d, e)

SpecFair == InitFair /\ [][Next]_vars /\ WF_vars(Next)

(* C16: assemble terminates, having taken every original node as the       *)
(* child of the loop exactly once although children are removed from the   *)
(* lists being walked, and it never walks into or re-parents a section it  *)
(* created.                                                                *)
C16_TerminatesVisitingOnce ==
    /\ <>(pc = "done")
    /\ [](\A x \in Nodes : visits[x] <= 1)
    /\ [](\A s \in Sections : visits[s] = 0)
    /\ [](\A i \in 1..Len(frames) : frames[i].elem \notin Sections)
    /\ [](last.op \in {"add_element", "recurse"} => last.node \in Orig)
    /\ [](pc = "done" => \A x \in Orig : visits[x] = 1)

(* A finished walk of a nested document during which children were taken   *)
(* out of two lists while those lists were walked.                         *)
C16_Witness ==
    /\ pc = "done"
    /\ \E x \in Orig : doc0.par[x] # 0 /\ nmoved[doc0.par[x]] >= 1
    /\ nmoved[0] >= 2
    /\ \A x \in Orig : visits[x] = 1

(* C17: between operations current_section is None exactly when            *)
(* current_level is 0, no section waits on the stack while there is no     *)
(* current section, and add_element always finds a current section to      *)
(* append to, also when the heading that set the scope's section was       *)
(* followed by headings inside nested containers.                          *)
C17_CurrentSectionSet ==
    /\ pc # "new" =>
           /\ current_section = None <=> current_level = 0
           /\ current_section = None => section_stack = <<>>
    /\ (AtChild("add") /\ ScopeSection(Top) # None) =>
           /\ current_section # None
           /\ current_section \in Sections
    /\ last.op = "add_element" => pc # "raised"

(* add_element is about to move a node of a scope whose own section has    *)
(* been replaced as current section by a heading inside a nested element.  *)
C17_Witness ==
    /\ AtChild("add")
    /\ ScopeSection(Top) # None
    /\ current_section # ScopeSection(Top)
    /\ tag[Child] = PTag
    /\ doc0.par[secinfo[current_section].header] # Top.elem

(* C18: after every step the structure is a tree rooted at the original    *)
(* root: the root has no parent, every other node is once in exactly one   *)
(* child list and is reached from the root (no cycles), and the nodes are  *)
(* the original nodes plus the sections created so far.                    *)
C18_WellFormedTree ==
    /\ Nodes = (0..doc0.n) \cup DOMAIN secinfo
    /\ Sections = DOMAIN secinfo
    /\ \A s \in Sections : s > doc0.n
    /\ Occurrences(0) = 0
    /\ \A x \in Nodes \ {0} : Occurrences(x) = 1
    /\ \A p \in Nodes : \A i \in 1..Len(children[p]) : children[p][i] \in Nodes \ {p}
    /\ \A x \in Nodes \ {0} : ParentOf(x) = 0 \/ Occurrences(ParentOf(x)) = 1
    /\ \A x \in Nodes \ {0} : Inside(x, 0)

(* A container that has children of its own has just been moved into the  *)
(* current section, before the walk goes into it.                          *)
C18_Witness ==
    /\ pc = "walk"
    /\ last.op = "add_element"
    /\ Len(children[last.node]) > 0
    /\ ParentOf(last.node) = current_section
    /\ \A y \in OrigChildren(last.node) : visits[y] = 0

RECURSIVE Preorder(_)
Preorder(x) ==
    LET RECURSIVE Each(_)
        Each(seq) == IF Len(seq) = 0 THEN <<>>
                     ELSE Preorder(seq[1]) \o Each(Tail(seq))
    IN  <<x>> \o Each(children[x])

ReadingOrder == SelectSeq(Preorder(0), LAMBDA x : x \in Orig)

(* C19: when the walk has ended, the depth-first pre-order sequence of the *)
(* original nodes, sections left out, is their sequence in the input tree. *)
C19_ReadingOrderPreserved ==
    pc = "done" => ReadingOrder = [i \in 1..doc0.n |-> i]

====
